---- MODULE Spec2Model ----
(***************************************************************************)
(* The c-ares event driver of gRPC (grpc_ares_ev_driver_posix.c) as a      *)
(* state machine: one driver, its fd_node list, the completion handlers    *)
(* on_readable_cb / on_writable_cb running step by step on reactor         *)
(* threads, and the exec_ctx closure list that destroy() posts its         *)
(* deferred cleanup to.                                                    *)
(***************************************************************************)
EXTENDS Integers, Sequences, FiniteSets, TLC

\* ---------------------------------------------------------------- bounds
\* size of the pool of fd_node objects that gpr_malloc can hand out
MaxNodes == 2
\* number of completion handlers that can be running at the same time
MaxHandlers == 2
\* cap of the process-wide grpc_ares_init() count
MaxAresInit == 2
\* number of threads that call into the driver or run its handlers
MaxThreads == 3

\* the native descriptors the engine can hold, one per ares_getsock slot
Socks == <<5, 7>>
NSocks == Len(Socks)
NodeIds == 1..MaxNodes

VARIABLES
  drv,          \* lifetime of the grpc_ares_ev_driver object
  ares_refs,    \* process-wide count kept by grpc_ares_init/grpc_ares_cleanup
  fds,          \* ev_driver->fds, the list of fd_node (head first)
  working,      \* ev_driver->working
  fdn,          \* the fd_node objects
  pollset_set,  \* the nodes whose grpc_fd is in ev_driver->pollset_set
  cb,           \* per closure: its handler between the flag clear and the unref
  at_mu,        \* the handlers that reached gpr_mu_lock(&ev_driver->mu)
  exec_ctx,     \* closure list of the exec_ctx handed to destroy()
  fault,        \* why the process aborted, "none" while it runs
  ub,           \* the undefined behaviours that have been executed
  mu,           \* the thread that holds ev_driver->mu, 0 when it is free
  node_mu,      \* per fd_node: the thread that holds fdn->mu, 0 when free
  thr           \* per thread: the function it runs and its position in it

vars == <<drv, ares_refs, fds, working, fdn, pollset_set, cb, at_mu,
          exec_ctx, fault, ub, mu, node_mu, thr>>

\* the lock state, which the specifications with atomic critical
\* sections leave alone
lockvars == <<mu, node_mu, thr>>

\* ------------------------------------------------------------ the engine
\* ARES_GETSOCK_READABLE / ARES_GETSOCK_WRITABLE on the bitmask of slot i
ARES_GETSOCK_READABLE(bits, i) == bits[i] % 2 = 1
ARES_GETSOCK_WRITABLE(bits, i) == bits[i] \div 2 = 1

\* what ares_getsock can answer: per slot neither, read, write or both
Bitmasks == [1..NSocks -> 0..3]
\* the answer of an engine that holds no descriptor
NoSocks == [i \in 1..NSocks |-> 0]

\* ------------------------------------------------------------- fd_node
NoNode ==
  [st |-> "unalloc", fd |-> 0, refs |-> 0,
   readable_registered |-> FALSE, writable_registered |-> FALSE,
   shutdown |-> FALSE, read_closure |-> "none", write_closure |-> "none"]

\* lines 264-273: a fresh node wrapping descriptor fd, one ref, no flags
fd_node_new(fd) ==
  [st |-> "live", fd |-> fd, refs |-> 1,
   readable_registered |-> FALSE, writable_registered |-> FALSE,
   shutdown |-> FALSE, read_closure |-> "none", write_closure |-> "none"]

\* the object gpr_malloc returns next
NewNodeId(F) == CHOOSE n \in NodeIds :
  F[n].st = "unalloc" /\ \A m \in NodeIds : F[m].st = "unalloc" => n <= m

FreeNodes(F) == Cardinality({n \in NodeIds : F[n].st = "unalloc"})

Dirs == {"r", "w"}
\* the closures of the nodes: read_closure and write_closure of each
Closures == NodeIds \X Dirs
\* the no-socket sentinel of ares_process_fd
ARES_SOCKET_BAD == -1
\* no engine call
NoCall == [op |-> "none", read_fd |-> ARES_SOCKET_BAD, write_fd |-> ARES_SOCKET_BAD]
\* a handler that is not running
IdleCb == [pc |-> "idle", inq |-> FALSE, call |-> NoCall]
CleanupClosure == [fdn |-> 0, dir |-> "c"]

Closure(F, n, dir) ==
  IF dir = "r" THEN F[n].read_closure ELSE F[n].write_closure

SetClosure(F, n, dir, v) ==
  IF dir = "r" THEN [F EXCEPT ![n].read_closure = v]
               ELSE [F EXCEPT ![n].write_closure = v]

fd_node_ref(w, n) == [w EXCEPT !.fdn[n].refs = @ + 1]

\* gpr_free(fdn): the memory goes back to the allocator, which may hand it
\* out again; while a closure of the node is still registered or running
\* the object stays marked freed
gpr_free(w, n) ==
  IF /\ w.fdn[n].read_closure = "none"
     /\ w.fdn[n].write_closure = "none"
     /\ \A d \in Dirs : w.cb[<<n, d>>].pc = "idle"
  THEN [w EXCEPT !.fdn[n] = NoNode]
  ELSE [w EXCEPT !.fdn[n].st = "freed", !.fdn[n].fd = 0, !.fdn[n].refs = 0,
                 !.fdn[n].shutdown = TRUE]

\* ------------------------------------------------------------ the reactor
\* shutdown(handle): idempotent; every registration pending on the handle
\* is forced to fire with an error.  The firing is posted to the caller's
\* exec_ctx: the closure list of destroy()'s exec_ctx when inq, else a
\* reactor thread picks it up (ReactorFire).
grpc_fd_shutdown(w, n, inq) ==
  IF w.fdn[n].shutdown \/ ~inq THEN [w EXCEPT !.fdn[n].shutdown = TRUE]
  ELSE LET rq == w.fdn[n].read_closure = "armed"
           wq == w.fdn[n].write_closure = "armed"
       IN [w EXCEPT !.fdn[n].shutdown = TRUE,
                    !.fdn[n].read_closure = IF rq THEN "queued" ELSE @,
                    !.fdn[n].write_closure = IF wq THEN "queued" ELSE @,
                    !.exec_ctx = @ \o (IF rq THEN <<[fdn |-> n, dir |-> "r"]>> ELSE <<>>)
                                   \o (IF wq THEN <<[fdn |-> n, dir |-> "w"]>> ELSE <<>>)]

\* register-on-readable / register-on-writable: the closure fires exactly
\* once; on a handle already shut down it fires at once with an error.
\* A second registration while one is pending aborts the process.
grpc_fd_notify_on(w, n, dir, inq) ==
  LET now == w.fdn[n].shutdown /\ inq
      w1 == [w EXCEPT !.fdn = SetClosure(@, n, dir, IF now THEN "queued" ELSE "armed")]
  IN IF Closure(w.fdn, n, dir) # "none" THEN [w EXCEPT !.fault = "double_notify"]
     ELSE IF now THEN [w1 EXCEPT !.exec_ctx = Append(@, [fdn |-> n, dir |-> dir])]
     ELSE w1

\* release(handle): the final teardown of the handle; legal only once the
\* handle was shut down and no registration is pending on it
grpc_fd_orphan(w, n) ==
  IF /\ w.fdn[n].shutdown
     /\ w.fdn[n].read_closure = "none"
     /\ w.fdn[n].write_closure = "none"
  THEN w
  ELSE [w EXCEPT !.fault = "bad_orphan"]

\* ------------------------------------------------------- fd_node_unref
\* the two GPR_ASSERTs of lines 104-105
unref_asserts(w, n) ==
  ~w.fdn[n].readable_registered /\ ~w.fdn[n].writable_registered

\* the released node stays in the driver's pollset set
fd_node_unref_keeps_pollset(w, n) ==
  LET r == w.fdn[n].refs - 1 IN
  IF r # 0 THEN [w EXCEPT !.fdn[n].refs = r]
  ELSE IF ~unref_asserts(w, n)
       THEN [w EXCEPT !.fdn[n].refs = r, !.fault = "assert_unref"]
       ELSE gpr_free(grpc_fd_orphan(grpc_fd_shutdown(w, n, FALSE), n), n)

\* gpr_unref is true when the count reaches zero; then the node is
\* released: out of the pollset set, shut down, orphaned and freed
fd_node_unref(w, n) ==
  LET r == w.fdn[n].refs - 1 IN
  IF r # 0 THEN [w EXCEPT !.fdn[n].refs = r]
  ELSE IF ~unref_asserts(w, n)
       THEN [w EXCEPT !.fdn[n].refs = r, !.fault = "assert_unref"]
       ELSE LET w1 == [w EXCEPT !.pollset_set = @ \ {n}]
                w2 == grpc_fd_shutdown(w1, n, FALSE)
            IN gpr_free(grpc_fd_orphan(w2, n), n)

\* ------------------------------------------------------- reconciliation
RECURSIVE pop_index(_, _, _, _)
pop_index(F, head, fd, i) ==
  IF i > Len(head) THEN 0
  ELSE IF F[head[i]].fd = fd THEN i
  ELSE pop_index(F, head, fd, i + 1)

\* the node is returned but stays linked in the list
pop_fd_node_keeps_linked(F, head, fd) ==
  LET i == pop_index(F, head, fd, 1) IN
  IF i = 0 THEN [ret |-> 0, head |-> head]
  ELSE [ret |-> head[i], head |-> head]

\* pop_fd_node: unlink and return the first node wrapping fd (0 for NULL)
pop_fd_node(F, head, fd) ==
  LET i == pop_index(F, head, fd, 1) IN
  IF i = 0 THEN [ret |-> 0, head |-> head]
  ELSE [ret |-> head[i],
        head |-> SubSeq(head, 1, i - 1) \o SubSeq(head, i + 1, Len(head))]

\* the registration takes no ref
register_read_no_ref(w, n, inq) ==
  LET w1 == grpc_fd_notify_on(w, n, "r", inq)
  IN [w1 EXCEPT !.fdn[n].readable_registered = TRUE]

\* lines 284-288: register read_closure, with a ref of its own
register_read(w, n, inq) ==
  LET w1 == grpc_fd_notify_on(fd_node_ref(w, n), n, "r", inq)
  IN [w1 EXCEPT !.fdn[n].readable_registered = TRUE]

\* lines 294-298: register write_closure, with a ref of its own
register_write(w, n, inq) ==
  LET w1 == grpc_fd_notify_on(fd_node_ref(w, n), n, "w", inq)
  IN [w1 EXCEPT !.fdn[n].writable_registered = TRUE]

\* the write bit is tested where the read bit is meant
need_read_wrong_bit(w, n, bits, i) ==
  ARES_GETSOCK_WRITABLE(bits, i) /\ ~w.fdn[n].readable_registered

\* lines 282-283
need_read(w, n, bits, i) ==
  ARES_GETSOCK_READABLE(bits, i) /\ ~w.fdn[n].readable_registered

\* lines 292-293
need_write(w, n, bits, i) ==
  ARES_GETSOCK_WRITABLE(bits, i) /\ ~w.fdn[n].writable_registered

\* lines 259-300: the body of the for loop for slot i
notify_slot(w, bits, i, inq) ==
  LET p == pop_fd_node(w.fdn, w.fds, Socks[i])
      isnew == p.ret = 0
      n == IF isnew THEN NewNodeId(w.fdn) ELSE p.ret
      w1 == IF isnew
            THEN [w EXCEPT !.fdn[n] = fd_node_new(Socks[i]),
                           !.pollset_set = @ \cup {n}]
            ELSE w
      w2 == [w1 EXCEPT !.fds = p.head, !.new_list = <<n>> \o @]
      w3 == IF need_read(w2, n, bits, i) THEN register_read(w2, n, inq) ELSE w2
      w4 == IF need_write(w3, n, bits, i) THEN register_write(w3, n, inq) ELSE w3
  IN w4

\* a slot is skipped unless its readable bit is set
sock_in_use_readable_only(bits, i) == ARES_GETSOCK_READABLE(bits, i)

\* lines 257-258
sock_in_use(bits, i) ==
  ARES_GETSOCK_READABLE(bits, i) \/ ARES_GETSOCK_WRITABLE(bits, i)

\* lines 256-302
RECURSIVE notify_loop(_, _, _, _)
notify_loop(w, bits, i, inq) ==
  IF i > NSocks \/ w.fault # "none" THEN w
  ELSE IF sock_in_use(bits, i)
       THEN notify_loop(notify_slot(w, bits, i, inq), bits, i + 1, inq)
       ELSE notify_loop(w, bits, i + 1, inq)

\* what is left in ev_driver->fds is unlinked but not shut down
RECURSIVE shutdown_rest_no_shutdown(_, _)
shutdown_rest_no_shutdown(w, inq) ==
  IF w.fds = <<>> \/ w.fault # "none" THEN w
  ELSE LET cur == Head(w.fds)
           w1 == [w EXCEPT !.fds = Tail(@)]
       IN shutdown_rest_no_shutdown(fd_node_unref(w1, cur), inq)

\* lines 306-311: what is left in ev_driver->fds is shut down and unlinked
RECURSIVE shutdown_rest(_, _)
shutdown_rest(w, inq) ==
  IF w.fds = <<>> \/ w.fault # "none" THEN w
  ELSE LET cur == Head(w.fds)
           w1 == [w EXCEPT !.fds = Tail(@)]
       IN shutdown_rest(fd_node_unref(grpc_fd_shutdown(w1, cur, inq), cur), inq)

\* working is left as it is when the new list is empty
install_list_keeps_working(w) ==
  [w EXCEPT !.fds = w.new_list, !.new_list = <<>>]

\* lines 312-317
install_list(w) ==
  [w EXCEPT !.fds = w.new_list, !.new_list = <<>>,
            !.working = IF w.new_list = <<>> THEN FALSE ELSE @]

grpc_ares_notify_on_event_locked(w, bits, inq) ==
  install_list(shutdown_rest(notify_loop(w, bits, 1, inq), inq))

\* ------------------------------------------------------------ plumbing
\* the state as one record, with the pass's local new_list
World ==
  [drv |-> drv, ares_refs |-> ares_refs, fds |-> fds, working |-> working,
   fdn |-> fdn, pollset_set |-> pollset_set, cb |-> cb, at_mu |-> at_mu,
   exec_ctx |-> exec_ctx, fault |-> fault, ub |-> ub, new_list |-> <<>>]

\* a process that aborted has no state left but the reason it died for
Dead(w) ==
  [drv |-> "none", ares_refs |-> 0, fds |-> <<>>, working |-> FALSE,
   fdn |-> [n \in NodeIds |-> NoNode], pollset_set |-> {},
   cb |-> [c \in Closures |-> IdleCb], at_mu |-> [reactor |-> 0, exec |-> 0],
   exec_ctx |-> <<>>, fault |-> w.fault, ub |-> w.ub, new_list |-> <<>>]

Commit(w) ==
  LET v == IF w.fault # "none" THEN Dead(w) ELSE w IN
  /\ drv' = v.drv
  /\ ares_refs' = v.ares_refs
  /\ fds' = v.fds
  /\ working' = v.working
  /\ fdn' = v.fdn
  /\ pollset_set' = v.pollset_set
  /\ cb' = v.cb
  /\ at_mu' = v.at_mu
  /\ exec_ctx' = v.exec_ctx
  /\ fault' = v.fault
  /\ ub' = v.ub
  /\ UNCHANGED lockvars

Running == fault = "none"

\* descriptors of the answer b that no node of the list wraps
NewNeeded(b) ==
  Cardinality({i \in 1..NSocks :
     /\ b[i] # 0
     /\ \A k \in 1..Len(fds) : fdn[fds[k]].fd # Socks[i]})

\* ares_getsock: the engine is opaque, so is its answer; the answers are
\* those the node pool can serve
ares_getsock == {b \in Bitmasks : NewNeeded(b) <= FreeNodes(fdn)}

\* a driver object exists (created, not yet freed by the cleanup closure)
DrvAlive == drv \in {"live", "destroying"}

\* a step through a pointer to the freed driver: the process may go on as
\* if the memory were still there, and this is recorded
Touch(w) == IF w.drv = "freed" THEN [w EXCEPT !.ub = @ \cup {"uaf"}] ELSE w

\* ------------------------------------------------ process-wide ares state
\* grpc_ares_init / grpc_ares_cleanup keep a process-wide count
grpc_ares_init(r) == r + 1
grpc_ares_cleanup(r) == r - 1

\* ------------------------------------------------------------- create()
\* lines 118-121: grpc_ares_init() reports an error, create returns it
create_init_failed(w) == w

\* lines 122-133: ares_init() fails, the driver is freed, the error returned
create_channel_failed(w) ==
  [w EXCEPT !.ares_refs = grpc_ares_init(@)]

\* lines 122-138: the driver is constructed
create_ok(w) ==
  [w EXCEPT !.ares_refs = grpc_ares_init(@), !.drv = "live",
            !.fds = <<>>, !.working = FALSE]

grpc_ares_ev_driver_create ==
  /\ Running /\ drv = "none"
  /\ \/ Commit(create_init_failed(World))
     \/ ares_refs < MaxAresInit /\ Commit(create_channel_failed(World))
     \/ ares_refs < MaxAresInit /\ Commit(create_ok(World))

\* -------------------------------------------------------------- start()
\* the pass runs whatever working is
start_pass_unguarded(w, bits) ==
  grpc_ares_notify_on_event_locked([w EXCEPT !.working = TRUE], bits, FALSE)

\* lines 323-326, between gpr_mu_lock and gpr_mu_unlock
start_pass(w, bits) ==
  IF ~w.working
  THEN grpc_ares_notify_on_event_locked([w EXCEPT !.working = TRUE], bits, FALSE)
  ELSE w

\* start() takes ev_driver->mu, which serialises it with every other
\* pass: the critical section is one step
start_with(bits) ==
  /\ Running /\ drv = "live"
  /\ bits \in ares_getsock
  /\ Commit(start_pass(World, bits))

grpc_ares_ev_driver_start == \E bits \in Bitmasks : start_with(bits)

\* ------------------------------------------------------------ destroy()
\* lines 160-163: the loop steps fdn = fdn->next in its body and again in
\* its increment; the second read is through NULL when the body's was the
\* last node
RECURSIVE destroy_loop(_, _)
destroy_loop(w, i) ==
  IF i > Len(w.fds) THEN w
  ELSE LET w1 == grpc_fd_shutdown(w, w.fds[i], TRUE)
       IN IF i + 1 > Len(w.fds)
          THEN [w1 EXCEPT !.ub = @ \cup {"null_deref"}]
          ELSE destroy_loop(w1, i + 2)

\* lines 164-169: unlock, post the cleanup closure
destroy_post(w) ==
  [w EXCEPT !.exec_ctx = Append(@, CleanupClosure), !.drv = "destroying"]

\* the read through NULL either kills the process or yields a null
\* pointer, which ends the loop
grpc_ares_ev_driver_destroy ==
  /\ Running /\ drv = "live"
  /\ LET w == destroy_loop(World, 1) IN
       \/ Commit(destroy_post(w))
       \/ "null_deref" \in w.ub /\ Commit([w EXCEPT !.fault = "segv"])

\* the exec_ctx of destroy() is inside a closure it runs
ExecBusy == at_mu.exec > 0 \/ \E c \in Closures : cb[c].inq

\* lines 143-151
cleanup(w) ==
  IF w.fds # <<>> THEN [w EXCEPT !.fault = "assert_cleanup"]
  ELSE [w EXCEPT !.drv = "freed", !.ares_refs = grpc_ares_cleanup(@)]

\* the cleanup closure, run from the closure list of destroy()'s exec_ctx
grpc_ares_ev_driver_cleanup ==
  /\ Running /\ drv = "destroying"
  /\ exec_ctx # <<>> /\ Head(exec_ctx) = CleanupClosure
  /\ ~ExecBusy
  /\ Commit(cleanup([World EXCEPT !.exec_ctx = Tail(@)]))

\* ----------------------------------- on_readable_cb / on_writable_cb
InFlight ==
  Cardinality({c \in Closures : cb[c].pc # "idle"}) + at_mu.reactor + at_mu.exec

\* the handler clears both flags
clear_flag_both(F, n, dir) ==
  [F EXCEPT ![n].readable_registered = FALSE, ![n].writable_registered = FALSE]

\* on_writable_cb clears the flag of on_readable_cb
clear_flag_readable_always(F, n, dir) ==
  [F EXCEPT ![n].readable_registered = FALSE]

\* lines 194-196 / 221-223: clear the flag under the node's mutex
clear_flag(F, n, dir) ==
  IF dir = "r" THEN [F EXCEPT ![n].readable_registered = FALSE]
               ELSE [F EXCEPT ![n].writable_registered = FALSE]

\* ares_process_fd is called on an error as well
engine_call_no_cancel(fd, dir, error) ==
  [op |-> "ares_process_fd",
   read_fd |-> IF dir = "r" THEN fd ELSE ARES_SOCKET_BAD,
   write_fd |-> IF dir = "w" THEN fd ELSE ARES_SOCKET_BAD]

\* lines 199-210 / 226-237: the one call the handler makes on
\* ev_driver->channel
engine_call(fd, dir, error) ==
  IF ~error
  THEN [op |-> "ares_process_fd",
        read_fd |-> IF dir = "r" THEN fd ELSE ARES_SOCKET_BAD,
        write_fd |-> IF dir = "w" THEN fd ELSE ARES_SOCKET_BAD]
  ELSE [op |-> "ares_cancel",
        read_fd |-> ARES_SOCKET_BAD, write_fd |-> ARES_SOCKET_BAD]

\* lines 192-210 / 219-237: the closure is taken off the reactor and runs:
\* it clears its flag, then calls ares_process_fd (no error) or ares_cancel
\* (error) on ev_driver->channel.  The engine is opaque: its call changes
\* only what ares_getsock answers later, and that is arbitrary in any case
on_cb_enter(w, n, dir, error, inq) ==
  Touch([w EXCEPT !.fdn = clear_flag(SetClosure(@, n, dir, "none"), n, dir),
                  !.cb[<<n, dir>>] = [pc |-> "unref", inq |-> inq,
                                      call |-> engine_call(w.fdn[n].fd, dir, error)]])

\* a reactor thread fires a pending registration: with an error when the
\* handle was shut down, else with success or an error of the reactor's own
ReactorFire(n, dir, error) ==
  /\ Running
  /\ InFlight < MaxHandlers /\ cb[<<n, dir>>].pc = "idle"
  /\ Closure(fdn, n, dir) = "armed"
  /\ fdn[n].shutdown => error
  /\ Commit(on_cb_enter(World, n, dir, error, FALSE))

\* the exec_ctx of destroy() runs the next closure of its list, one at a
\* time and in the order they were posted
ExecCtxRun ==
  /\ Running
  /\ exec_ctx # <<>> /\ Head(exec_ctx) # CleanupClosure
  /\ ~ExecBusy
  /\ LET c == Head(exec_ctx) IN
       /\ InFlight < MaxHandlers /\ cb[<<c.fdn, c.dir>>].pc = "idle"
       /\ Commit(on_cb_enter([World EXCEPT !.exec_ctx = Tail(@)],
                             c.fdn, c.dir, TRUE, TRUE))

\* lines 211 / 238, up to the call of gpr_mu_lock in line 212 / 239
on_cb_unref_step(w, n, dir) ==
  LET inq == w.cb[<<n, dir>>].inq
      w1 == [w EXCEPT !.cb[<<n, dir>>] = IdleCb,
                      !.at_mu = IF inq THEN [@ EXCEPT !.exec = @ + 1]
                                       ELSE [@ EXCEPT !.reactor = @ + 1]]
      w2 == fd_node_unref(w1, n)
  IN IF w2.fdn[n].st # "live" THEN Touch(w2) ELSE w2

on_cb_unref(n, dir) ==
  /\ Running /\ cb[<<n, dir>>].pc = "unref"
  /\ Commit(on_cb_unref_step(World, n, dir))

\* lines 212-214 / 239-241: lock ev_driver->mu, the pass, unlock, return
on_cb_pass(w, bits, inq) ==
  grpc_ares_notify_on_event_locked(
    Touch([w EXCEPT !.at_mu = IF inq THEN [@ EXCEPT !.exec = @ - 1]
                                     ELSE [@ EXCEPT !.reactor = @ - 1]]),
    bits, inq)

\* inq tells the handler run by destroy()'s exec_ctx from the others
on_cb_notify_with(inq, bits) ==
  /\ Running
  /\ IF inq THEN at_mu.exec > 0 ELSE at_mu.reactor > 0
  /\ bits \in ares_getsock
  /\ Commit(on_cb_pass(World, bits, inq))

on_cb_notify == \E inq \in BOOLEAN, bits \in Bitmasks : on_cb_notify_with(inq, bits)

\* a handler reaches for the driver after the cleanup closure freed it and
\* the process dies on the access
UseAfterFree ==
  /\ Running /\ drv = "freed"
  /\ \/ at_mu.exec + at_mu.reactor > 0
     \/ \E c \in Closures : cb[c].pc = "unref" /\ fdn[c[1]].refs = 1
     \/ \E c \in Closures : cb[c].pc = "idle" /\ Closure(fdn, c[1], c[2]) # "none"
  /\ Commit([World EXCEPT !.fault = "segv", !.ub = @ \cup {"uaf"}])

\* ------------------------------------------------------------- threads
Threads == 1..MaxThreads

\* a thread outside the driver
IdleThr == [op |-> "idle", pc |-> "idle", node |-> 0, i |-> 0]

\* gpr_mu_init: lines 134 and 270
LocksFree ==
  /\ mu = 0
  /\ node_mu = [n \in NodeIds |-> 0]
  /\ thr = [t \in Threads |-> IdleThr]

\* ------------------------------------------------------- specification
\* the state create() returns in: lines 134-138, one grpc_ares_init()
Init ==
  /\ drv = "live"
  /\ ares_refs = 1
  /\ fds = <<>>
  /\ working = FALSE
  /\ fdn = [n \in NodeIds |-> NoNode]
  /\ pollset_set = {}
  /\ cb = [c \in Closures |-> IdleCb]
  /\ at_mu = [reactor |-> 0, exec |-> 0]
  /\ exec_ctx = <<>>
  /\ fault = "none"
  /\ ub = {}
  /\ LocksFree

Next ==
  \/ grpc_ares_ev_driver_start
  \/ grpc_ares_ev_driver_destroy
  \/ grpc_ares_ev_driver_cleanup
  \/ \E n \in NodeIds, dir \in Dirs, error \in BOOLEAN : ReactorFire(n, dir, error)
  \/ ExecCtxRun
  \/ \E n \in NodeIds, dir \in Dirs : on_cb_unref(n, dir)
  \/ on_cb_notify
  \/ UseAfterFree

Spec == Init /\ [][Next]_vars

\* before any create(): no driver, the ares library not initialised
InitNone ==
  /\ drv = "none"
  /\ ares_refs = 0
  /\ fds = <<>>
  /\ working = FALSE
  /\ fdn = [n \in NodeIds |-> NoNode]
  /\ pollset_set = {}
  /\ cb = [c \in Closures |-> IdleCb]
  /\ at_mu = [reactor |-> 0, exec |-> 0]
  /\ exec_ctx = <<>>
  /\ fault = "none"
  /\ ub = {}
  /\ LocksFree

\* the driver's whole life, create() included, while the reactor reports
\* no readiness: completions fire only because destroy() shuts handles down
NextLife ==
  \/ grpc_ares_ev_driver_create
  \/ grpc_ares_ev_driver_start
  \/ grpc_ares_ev_driver_destroy
  \/ grpc_ares_ev_driver_cleanup
  \/ ExecCtxRun
  \/ \E n \in NodeIds, dir \in Dirs : on_cb_unref(n, dir)
  \/ on_cb_notify
  \/ UseAfterFree

SpecLife == InitNone /\ [][NextLife]_vars

\* ------------------------------------------------------ lock protocol
\* The threads step through the gpr_mu_lock / gpr_mu_unlock calls of the
\* functions they run; what the critical sections do to the driver is in
\* the actions above and is left out here.

\* the state of the driver, which the lock protocol leaves alone
datavars == <<drv, ares_refs, fds, working, fdn, pollset_set, cb, at_mu,
              exec_ctx, fault, ub>>

\* the node lock is kept when the handler goes on
unlock_node_forgotten(nm, n) == nm

\* gpr_mu_unlock(&fdn->mu): lines 196, 223 and 300
unlock_node(nm, n) == [nm EXCEPT ![n] = 0]

\* gpr_mu_lock(&fdn->mu): lines 194, 221 and 279
lock_node(nm, n, t) == [nm EXCEPT ![n] = t]

\* a thread enters start(), destroy() or a handler of node n
ThreadCalls(t) ==
  /\ thr[t].op = "idle"
  /\ \/ thr' = [thr EXCEPT ![t] = [IdleThr EXCEPT !.op = "start", !.pc = "lock_mu"]]
     \/ /\ \A u \in Threads : thr[u].op \notin {"destroy", "cleanup"}
        /\ thr' = [thr EXCEPT ![t] = [IdleThr EXCEPT !.op = "destroy", !.pc = "lock_mu"]]
     \/ \E n \in NodeIds :
          thr' = [thr EXCEPT ![t] = [op |-> "handler", pc |-> "h_lock_node",
                                     node |-> n, i |-> 0]]
  /\ UNCHANGED <<mu, node_mu, datavars>>

\* lines 194 / 221: the handler takes the lock of its node
HandlerLocksNode(t) ==
  /\ thr[t].pc = "h_lock_node" /\ node_mu[thr[t].node] = 0
  /\ node_mu' = lock_node(node_mu, thr[t].node, t)
  /\ thr' = [thr EXCEPT ![t].pc = "h_unlock_node"]
  /\ UNCHANGED <<mu, datavars>>

\* lines 195-196 / 222-223: flag cleared, the lock of the node released
HandlerUnlocksNode(t) ==
  /\ thr[t].pc = "h_unlock_node"
  /\ node_mu' = unlock_node(node_mu, thr[t].node)
  /\ thr' = [thr EXCEPT ![t].pc = "h_unref"]
  /\ UNCHANGED <<mu, datavars>>

\* lines 198-211 / 225-238: the engine call and fd_node_unref take no lock
HandlerCallsEngine(t) ==
  /\ thr[t].pc = "h_unref"
  /\ thr' = [thr EXCEPT ![t].pc = "lock_mu"]
  /\ UNCHANGED <<mu, node_mu, datavars>>

\* gpr_mu_lock(&ev_driver->mu): lines 146, 158, 212, 239 and 322; start()
\* skips the pass when working is set (line 323)
LocksMu(t) ==
  /\ thr[t].pc = "lock_mu" /\ mu = 0
  /\ mu' = t
  /\ \/ /\ thr[t].op \in {"start", "handler"}
        /\ thr' = [thr EXCEPT ![t].pc = "pass", ![t].i = 1]
     \/ /\ thr[t].op = "start"
        /\ thr' = [thr EXCEPT ![t].pc = "unlock_mu"]
     \/ /\ thr[t].op = "destroy"
        /\ thr' = [thr EXCEPT ![t].pc = "shutdown_loop"]
     \/ /\ thr[t].op = "cleanup"
        /\ thr' = [thr EXCEPT ![t].pc = "unlock_mu"]
  /\ UNCHANGED <<node_mu, datavars>>

\* lines 256-278: the for loop of the pass goes to the next slot, to the
\* lock of the node of a reported slot, or ends; lines 306-317 take no lock
PassNextSlot(t) ==
  /\ thr[t].pc = "pass"
  /\ IF thr[t].i > NSocks
     THEN thr' = [thr EXCEPT ![t].pc = "unlock_mu", ![t].i = 0]
     ELSE \/ thr' = [thr EXCEPT ![t].i = @ + 1]
          \/ \E n \in NodeIds :
               thr' = [thr EXCEPT ![t].pc = "lock_node", ![t].node = n]
  /\ UNCHANGED <<mu, node_mu, datavars>>

\* line 279
PassLocksNode(t) ==
  /\ thr[t].pc = "lock_node" /\ node_mu[thr[t].node] = 0
  /\ node_mu' = lock_node(node_mu, thr[t].node, t)
  /\ thr' = [thr EXCEPT ![t].pc = "unlock_node"]
  /\ UNCHANGED <<mu, datavars>>

\* lines 280-300
PassUnlocksNode(t) ==
  /\ thr[t].pc = "unlock_node"
  /\ node_mu' = unlock_node(node_mu, thr[t].node)
  /\ thr' = [thr EXCEPT ![t].pc = "pass", ![t].i = @ + 1, ![t].node = 0]
  /\ UNCHANGED <<mu, datavars>>

\* lines 160-163: grpc_fd_shutdown takes no lock of the driver
DestroyShutsDown(t) ==
  /\ thr[t].pc = "shutdown_loop"
  /\ thr' = [thr EXCEPT ![t].pc = "unlock_mu"]
  /\ UNCHANGED <<mu, node_mu, datavars>>

\* gpr_mu_unlock(&ev_driver->mu): lines 147, 164, 214, 241 and 327; the
\* thread of destroy() goes on to the cleanup closure (lines 167-169), the
\* cleanup closure ends the driver
UnlocksMu(t) ==
  /\ thr[t].pc = "unlock_mu" /\ mu = t
  /\ mu' = 0
  /\ thr' = [thr EXCEPT ![t] =
       IF thr[t].op = "destroy"
       THEN [IdleThr EXCEPT !.op = "cleanup", !.pc = "lock_mu"]
       ELSE IF thr[t].op = "cleanup"
       THEN [IdleThr EXCEPT !.op = "cleanup", !.pc = "done"]
       ELSE IdleThr]
  /\ UNCHANGED <<node_mu, datavars>>

NextLocks ==
  \/ \E t \in Threads : ThreadCalls(t)
  \/ \E t \in Threads : HandlerLocksNode(t)
  \/ \E t \in Threads : HandlerUnlocksNode(t)
  \/ \E t \in Threads : HandlerCallsEngine(t)
  \/ \E t \in Threads : LocksMu(t)
  \/ \E t \in Threads : PassNextSlot(t)
  \/ \E t \in Threads : PassLocksNode(t)
  \/ \E t \in Threads : PassUnlocksNode(t)
  \/ \E t \in Threads : DestroyShutsDown(t)
  \/ \E t \in Threads : UnlocksMu(t)

SpecLocks == Init /\ [][NextLocks]_vars

\* ================================================================ claims
\* descriptors wrapped by the nodes of list L
FdSet(F, L) == {F[L[k]].fd : k \in 1..Len(L)}

\* descriptors a getsock answer reports
Reported(bits) == {Socks[i] : i \in {j \in 1..NSocks : bits[j] # 0}}

\* the slot of the answer that reports descriptor fd
SlotOf(fd) == CHOOSE i \in 1..NSocks : Socks[i] = fd

InList(n, L) == \E k \in 1..Len(L) : L[k] = n

\* a step that is a reconciliation pass with answer bits and returns
PassStep(bits) ==
  /\ fault' = "none"
  /\ \/ ~working /\ at_mu' = at_mu /\ cb' = cb /\ start_with(bits)
     \/ at_mu'.exec < at_mu.exec /\ on_cb_notify_with(TRUE, bits)
     \/ at_mu'.reactor < at_mu.reactor /\ on_cb_notify_with(FALSE, bits)

\* C1: at the end of every reconciliation pass (from start() or from a
\* completion handler) the descriptors held by the nodes of the fd list
\* are exactly the descriptors the engine reported in that pass, one live
\* node for each.
C1_ListEqualsReported ==
  [][\A bits \in Bitmasks : PassStep(bits) =>
        /\ FdSet(fdn', fds') = Reported(bits)
        /\ Len(fds') = Cardinality(Reported(bits))
        /\ \A k \in 1..Len(fds') : fdn'[fds'[k]].st = "live"]_vars

\* a pass dropped one node, whose write registration is still pending,
\* and kept another in the list
C1_Witness ==
  /\ drv = "live" /\ Len(fds) = 1
  /\ \E n \in NodeIds : fdn[n].st = "live" /\ ~InList(n, fds) /\ fdn[n].shutdown

\* C2 as stated: at the end of every pass each node of the list has
\* readable_registered equal to the reported readable bit and
\* writable_registered equal to the reported writable bit.
C2_FlagsEqualReported ==
  [][\A bits \in Bitmasks : PassStep(bits) =>
        \A k \in 1..Len(fds') :
          LET n == fds'[k]
              i == SlotOf(fdn'[n].fd)
          IN /\ fdn'[n].readable_registered = ARES_GETSOCK_READABLE(bits, i)
             /\ fdn'[n].writable_registered = ARES_GETSOCK_WRITABLE(bits, i)]_vars

\* C2 amended: at the end of every pass a node of the list has a flag set
\* exactly if the engine reported that direction in this pass or the flag
\* was already set on this node before the pass: a pass sets flags and
\* never clears one.
C2_FlagsCoverReported ==
  [][\A bits \in Bitmasks : PassStep(bits) =>
        \A k \in 1..Len(fds') :
          LET n == fds'[k]
              i == SlotOf(fdn'[n].fd)
              old == InList(n, fds)
          IN /\ fdn'[n].readable_registered =
                  (ARES_GETSOCK_READABLE(bits, i)
                     \/ (old /\ fdn[n].readable_registered))
             /\ fdn'[n].writable_registered =
                  (ARES_GETSOCK_WRITABLE(bits, i)
                     \/ (old /\ fdn[n].writable_registered))]_vars

\* a node of the list with both flags set while its read registration is
\* pending and its write handler is in flight: flags set by different passes
C2_Witness ==
  /\ drv = "live"
  /\ \E n \in NodeIds :
       /\ InList(n, fds)
       /\ fdn[n].readable_registered /\ fdn[n].writable_registered
       /\ fdn[n].read_closure = "armed" /\ fdn[n].write_closure = "armed"
       /\ cb[<<n, "w">>].pc = "unref"

B2N(b) == IF b THEN 1 ELSE 0

\* C3 as stated: in every reachable state every node of the fd list has
\* ref count 1 + readable_registered + writable_registered.
C3_RefsEqualFlags ==
  \A k \in 1..Len(fds) :
    fdn[fds[k]].refs = 1 + B2N(fdn[fds[k]].readable_registered)
                         + B2N(fdn[fds[k]].writable_registered)

\* the handlers of node n that cleared their flag and still hold their ref
Unreleased(n) == Cardinality({d \in Dirs : cb[<<n, d>>].pc = "unref"})

\* C3 amended: in every reachable state every node of the fd list has ref
\* count 1 + readable_registered + writable_registered + the number of
\* its completion handlers that have cleared their flag and have not yet
\* released their ref.
C3_RefsEqualFlagsAndHandlers ==
  \A k \in 1..Len(fds) :
    fdn[fds[k]].refs = 1 + B2N(fdn[fds[k]].readable_registered)
                         + B2N(fdn[fds[k]].writable_registered)
                         + Unreleased(fds[k])

\* a node of the list between the flag clear and the unref of its read
\* handler, re-registered for read meanwhile
C3_Witness ==
  \E k \in 1..Len(fds) :
    /\ cb[<<fds[k], "r">>].pc = "unref"
    /\ fdn[fds[k]].readable_registered
    /\ fdn[fds[k]].refs = 3

\* C4: a node is never released while a registration on it is pending:
\* the assertions of fd_node_unref never fail, a released node is not in
\* the fd list, and every pending registration and every running handler
\* that still holds its ref is on a node that has not been released.
C4_NoReleaseWhilePending ==
  /\ fault # "assert_unref"
  /\ \A k \in 1..Len(fds) : fdn[fds[k]].st = "live"
  /\ \A n \in NodeIds, d \in Dirs :
       (Closure(fdn, n, d) # "none" \/ cb[<<n, d>>].pc # "idle")
         => fdn[n].st = "live"
  /\ \A n \in NodeIds :
       (fdn[n].readable_registered \/ fdn[n].writable_registered)
         => fdn[n].st = "live"

\* after destroy(): every node has been released, the last of them by the
\* unref of a handler that now waits for the driver's mutex
C4_Witness ==
  /\ drv = "destroying"
  /\ at_mu.reactor + at_mu.exec > 0
  /\ fds = <<>>
  /\ \A n \in NodeIds : fdn[n].st = "unalloc"
  /\ \A c \in Closures : cb[c].pc = "idle"

\* C5 as stated: destroy() shuts down the descriptor of every node that is
\* in the fd list when it is called, so that no registration of such a
\* node stays pending.
C5_DestroyShutsDownEveryNode ==
  [][(drv = "live" /\ drv' = "destroying") =>
        \A k \in 1..Len(fds) :
          /\ fdn'[fds[k]].shutdown
          /\ \A d \in Dirs : Closure(fdn', fds[k], d) # "armed"]_vars

\* C6 as stated: once teardown has released the driver no completion
\* handler is pending or in flight, and none has touched the released
\* driver.
C6_NoHandlerAfterTeardown ==
  drv = "freed" =>
    /\ InFlight = 0
    /\ \A n \in NodeIds, d \in Dirs : Closure(fdn, n, d) = "none"
    /\ "uaf" \notin ub

\* C7 as stated: the deferred teardown never fails its assertion that the
\* fd list is empty.
C7_CleanupFindsListEmpty == fault # "assert_cleanup"

\* C8 as stated: the process-wide count of grpc_ares_init() is one while
\* a driver made by create() exists and is back at its value from before
\* create() otherwise, whether create() succeeded or failed.
C8_InitCountBalanced == ares_refs = IF DrvAlive THEN 1 ELSE 0

\* C9: start() called while the driver is working changes nothing, and no
\* pass, of a repeated start() or of a handler, registers a notification
\* on a descriptor and direction whose registration is still pending.
C9_StartIdempotent ==
  /\ [][\A bits \in Bitmasks :
          (working /\ at_mu' = at_mu /\ cb' = cb /\ start_with(bits))
            => UNCHANGED vars]_vars
  /\ [](fault # "double_notify")
  /\ [][\A bits \in Bitmasks : PassStep(bits) =>
          \A n \in NodeIds, d \in Dirs :
            (Closure(fdn, n, d) # "none" /\ cb[<<n, d>>].pc = "idle")
              => /\ Closure(fdn', n, d) # "none"
                 /\ fdn'[n].refs >= fdn[n].refs - 1
                 /\ fdn'[n].refs <= fdn[n].refs + 1]_vars

\* start() can be called on a driver that is not working and has a node
\* with a pending read registration in its list
C9_Witness ==
  /\ drv = "live" /\ ~working
  /\ \E k \in 1..Len(fds) :
       /\ fdn[fds[k]].readable_registered
       /\ fdn[fds[k]].read_closure = "armed"

\* C10 as stated: working is TRUE exactly while the fd list is not empty.
C10_WorkingIffListNotEmpty ==
  (fault = "none" /\ drv = "live") => (working <=> fds # <<>>)

\* C10 amended: while working is TRUE the fd list is not empty, and
\* working goes from TRUE to FALSE only in a pass in which the engine
\* reports no descriptor; the list can be non-empty while working is
\* FALSE, when a handler's pass fills it.
C10_WorkingImpliesListNotEmpty ==
  /\ [](working => fds # <<>>)
  /\ [][(working /\ ~working' /\ fault' = "none") =>
          /\ fds' = <<>>
          /\ PassStep(NoSocks)]_vars

\* a pass has emptied the list and cleared working while a registration
\* of a node it removed is still pending
C10_Witness ==
  /\ drv = "live" /\ ~working /\ fds = <<>>
  /\ \E n \in NodeIds : fdn[n].st = "live" /\ fdn[n].shutdown

\* ------------------------------------------------------------- fairness
\* the driver in operation, from create() until destroy() is called
NextRun ==
  \/ grpc_ares_ev_driver_start
  \/ \E n \in NodeIds, dir \in Dirs, error \in BOOLEAN : ReactorFire(n, dir, error)
  \/ \E n \in NodeIds, dir \in Dirs : on_cb_unref(n, dir)
  \/ on_cb_notify

\* what a step of ReactorFire on a handle that was shut down does to cb
FireShutDown(n, dir) ==
  /\ Running /\ InFlight < MaxHandlers /\ cb[<<n, dir>>].pc = "idle"
  /\ Closure(fdn, n, dir) = "armed" /\ fdn[n].shutdown
  /\ cb' = [cb EXCEPT ![<<n, dir>>] =
               [pc |-> "unref", inq |-> FALSE,
                call |-> [op |-> "ares_cancel", read_fd |-> ARES_SOCKET_BAD,
                          write_fd |-> ARES_SOCKET_BAD]]]

\* what a step of on_cb_unref does to cb
HandlerUnrefs(n, dir) ==
  /\ Running /\ cb[<<n, dir>>].pc = "unref"
  /\ cb' = [cb EXCEPT ![<<n, dir>>] = IdleCb]

\* what a step of on_cb_notify does to at_mu
HandlerPasses ==
  /\ Running
  /\ \/ at_mu.exec > 0 /\ at_mu' = [at_mu EXCEPT !.exec = @ - 1]
     \/ at_mu.reactor > 0 /\ at_mu' = [at_mu EXCEPT !.reactor = @ - 1]

\* the reactor fires every registration pending on a handle that was shut
\* down, and a thread that runs a handler is scheduled until the handler
\* returns
Fairness ==
  /\ \A n \in NodeIds, dir \in Dirs : SF_cb(FireShutDown(n, dir))
  /\ \A n \in NodeIds, dir \in Dirs : WF_cb(HandlerUnrefs(n, dir))
  /\ WF_at_mu(HandlerPasses)

SpecRun == Init /\ [][NextRun]_vars /\ Fairness

\* node n was dropped by a pass and waits for its registrations to fire
Dropped(n) == fdn[n].st = "live" /\ fdn[n].shutdown /\ ~InList(n, fds)

\* the registrations of node n that have not fired yet
Pending(n) == Cardinality({d \in Dirs : Closure(fdn, n, d) # "none"})

\* C11: a node of the list whose descriptor a pass finds no longer reported
\* is shut down by that pass; it is not released while one of its at most
\* two registrations is pending or a handler of it still holds its ref
\* (it holds one ref for each of them); and, the reactor firing every
\* registration pending on a handle that was shut down, it is eventually
\* released.
C11_DroppedNodeReleased ==
  /\ [][\A bits \in Bitmasks : PassStep(bits) =>
          \A k \in 1..Len(fds) :
            fdn[fds[k]].fd \notin Reported(bits) =>
              /\ ~InList(fds[k], fds')
              /\ fdn'[fds[k]].st = "live" => fdn'[fds[k]].shutdown]_vars
  /\ [](\A n \in NodeIds : Dropped(n) =>
          /\ fdn[n].refs = Pending(n) + Unreleased(n)
          /\ fdn[n].refs >= 1)
  /\ \A n \in NodeIds : Dropped(n) ~> fdn[n].st = "unalloc"

\* node 7 was reported for read and write, its write registration fired
\* and a pass with an empty answer dropped it: it waits, shut down, for
\* its read registration
C11_Witness ==
  /\ drv = "live" /\ fds = <<>> /\ ~working
  /\ \E n \in NodeIds :
       /\ Dropped(n) /\ fdn[n].fd = 7
       /\ fdn[n].read_closure = "armed" /\ fdn[n].readable_registered
       /\ ~fdn[n].writable_registered /\ fdn[n].write_closure = "none"
       /\ cb[<<n, "w">>].pc = "idle"
       /\ fdn[n].refs = 1

\* C12: every firing of a handler makes exactly one engine call before it
\* drops its ref: ares_process_fd with the node's descriptor in the
\* position of its direction and ARES_SOCKET_BAD in the other when the
\* completion has no error, ares_cancel when it has one; the handler then
\* drops its ref once and runs one pass under the driver's mutex.
C12_OneEngineCallPerFiring ==
  /\ [][\A n \in NodeIds, d \in Dirs, error \in BOOLEAN :
          (cb[<<n, d>>].pc = "idle" /\ cb'[<<n, d>>].pc = "unref"
             /\ (ReactorFire(n, d, error)
                   \/ (error /\ exec_ctx # <<>>
                         /\ Head(exec_ctx) = [fdn |-> n, dir |-> d] /\ ExecCtxRun)))
            => /\ fdn'[n].refs = fdn[n].refs
               /\ cb'[<<n, d>>].call.op = IF error THEN "ares_cancel" ELSE "ares_process_fd"
               /\ cb'[<<n, d>>].call.read_fd =
                    IF ~error /\ d = "r" THEN fdn[n].fd ELSE ARES_SOCKET_BAD
               /\ cb'[<<n, d>>].call.write_fd =
                    IF ~error /\ d = "w" THEN fdn[n].fd ELSE ARES_SOCKET_BAD]_vars
  /\ [](\A c \in Closures : cb[c].pc = "unref" <=> cb[c].call.op # "none")
  /\ [][\A n \in NodeIds, d \in Dirs :
          (cb[<<n, d>>].pc = "unref" /\ cb'[<<n, d>>].pc = "idle" /\ fault' = "none")
            => /\ at_mu'.reactor + at_mu'.exec = at_mu.reactor + at_mu.exec + 1
               /\ fdn'[n].st = "live" => fdn'[n].refs = fdn[n].refs - 1]_vars
  /\ [][(at_mu'.reactor + at_mu'.exec < at_mu.reactor + at_mu.exec /\ fault' = "none")
          => /\ at_mu'.reactor + at_mu'.exec = at_mu.reactor + at_mu.exec - 1
             /\ \E bits \in Bitmasks : PassStep(bits)]_vars

\* a read handler that called ares_process_fd and a write handler that
\* called ares_cancel are both about to drop their refs
C12_Witness ==
  \E n, m \in NodeIds :
    /\ cb[<<n, "r">>].call.op = "ares_process_fd"
    /\ cb[<<n, "r">>].call.read_fd = fdn[n].fd
    /\ cb[<<m, "w">>].call.op = "ares_cancel"

\* the flag of direction d of a node record
Flag(f, d) == IF d = "r" THEN f.readable_registered ELSE f.writable_registered

OtherDir(d) == IF d = "r" THEN "w" ELSE "r"

\* C13: in every interleaving of the read and the write handler of one
\* node, the step in which a handler clears its flag leaves the other flag
\* and the ref count as they were, and the step in which a handler drops
\* its ref lowers the count by exactly one and leaves both flags as they
\* were; the node is released by that step only if the count was one.
C13_ConcurrentHandlersIndependent ==
  /\ [][\A n \in NodeIds, d \in Dirs :
          (cb[<<n, d>>].pc = "idle" /\ cb'[<<n, d>>].pc = "unref")
            => /\ ~Flag(fdn'[n], d)
               /\ Flag(fdn'[n], OtherDir(d)) = Flag(fdn[n], OtherDir(d))
               /\ fdn'[n].refs = fdn[n].refs
               /\ cb'[<<n, OtherDir(d)>>] = cb[<<n, OtherDir(d)>>]]_vars
  /\ [][\A n \in NodeIds, d \in Dirs :
          (cb[<<n, d>>].pc = "unref" /\ cb'[<<n, d>>].pc = "idle" /\ fault' = "none")
            => IF fdn'[n].st = "live"
               THEN /\ fdn'[n].refs = fdn[n].refs - 1
                    /\ fdn'[n].readable_registered = fdn[n].readable_registered
                    /\ fdn'[n].writable_registered = fdn[n].writable_registered
               ELSE /\ fdn[n].refs = 1
                    /\ cb[<<n, OtherDir(d)>>].pc = "idle"]_vars

\* the read and the write handler of one node are both between their
\* flag clear and their unref
C13_Witness ==
  \E n \in NodeIds :
    /\ cb[<<n, "r">>].pc = "unref" /\ cb[<<n, "w">>].pc = "unref"
    /\ fdn[n].refs >= 2

\* thread t is inside a function of the driver
Active(t) == thr[t].pc \notin {"idle", "done"}

\* thread t waits for a lock that another thread holds
Blocked(t) ==
  \/ thr[t].pc = "lock_mu" /\ mu # 0
  \/ thr[t].pc \in {"h_lock_node", "lock_node"} /\ node_mu[thr[t].node] # 0

\* C14: no thread requests the driver's mutex while it holds the mutex of
\* a node; the mutex of a node is held either alone, by a handler that
\* clears its flag, or inside the driver's mutex, by a pass; and whenever
\* threads are inside the driver one of them is not blocked on a lock.
C14_NoLockInversion ==
  /\ \A t \in Threads : thr[t].pc = "lock_mu" => \A n \in NodeIds : node_mu[n] # t
  /\ \A t \in Threads, n \in NodeIds :
       node_mu[n] = t =>
         \/ thr[t].op = "handler" /\ thr[t].pc = "h_unlock_node" /\ mu # t
         \/ thr[t].pc = "unlock_node" /\ mu = t
  /\ (\E t \in Threads : Active(t)) => \E t \in Threads : Active(t) /\ ~Blocked(t)

\* a handler holds the mutex of a node, a pass that holds the driver's
\* mutex waits for that node, and a third thread waits for the driver's
\* mutex
C14_Witness ==
  \E t, u, v \in Threads :
    /\ thr[t].op = "handler" /\ thr[t].pc = "h_unlock_node"
    /\ thr[u].pc = "lock_node" /\ thr[u].node = thr[t].node /\ mu = u
    /\ thr[v].pc = "lock_mu"

\* C15 as stated: the membership of the pollset set changes only in steps
\* that run under the driver's mutex, which are the passes of start() and
\* of the handlers.
C15_PollsetChangesUnderDriverLock ==
  [][(pollset_set' # pollset_set /\ fault' = "none")
       => \E bits \in Bitmasks : PassStep(bits)]_vars

\* C16: a pass keeps every node of the list whose descriptor is reported
\* again: the same node stays in the list, no other node is made for its
\* descriptor, it stays in the pollset set and is not shut down; a
\* direction is registered on it, with one more ref and its flag set,
\* exactly if the direction is reported and its flag was false; a node of
\* which nothing new is asked is left as it was.
C16_PassKeepsTrackedNode ==
  [][\A bits \in Bitmasks : PassStep(bits) =>
        \A k \in 1..Len(fds) :
          LET n == fds[k]
              f == fdn[n]
              i == SlotOf(f.fd)
              nr == ARES_GETSOCK_READABLE(bits, i) /\ ~f.readable_registered
              nw == ARES_GETSOCK_WRITABLE(bits, i) /\ ~f.writable_registered
          IN f.fd \in Reported(bits) =>
               /\ InList(n, fds')
               /\ \A m \in NodeIds \ {n} :
                    (fdn'[m].st = "live" /\ fdn'[m].fd = f.fd) => fdn'[m] = fdn[m]
               /\ n \in pollset_set'
               /\ fdn'[n].st = "live" /\ fdn'[n].fd = f.fd
               /\ fdn'[n].shutdown = f.shutdown
               /\ fdn'[n].refs = f.refs + B2N(nr) + B2N(nw)
               /\ fdn'[n].readable_registered = (f.readable_registered \/ nr)
               /\ fdn'[n].writable_registered = (f.writable_registered \/ nw)
               /\ IF nr THEN fdn'[n].read_closure # "none" /\ f.read_closure = "none"
                        ELSE fdn'[n].read_closure = f.read_closure
               /\ IF nw THEN fdn'[n].write_closure # "none" /\ f.write_closure = "none"
                        ELSE fdn'[n].write_closure = f.write_closure
               /\ (~nr /\ ~nw) => fdn'[n] = f]_vars

\* a handler is about to run its pass while a node of the list has both
\* registrations pending: a pass that reports the node's descriptor again
\* asks nothing new of it
C16_Witness ==
  /\ drv = "live" /\ at_mu.reactor > 0
  /\ \E k \in 1..Len(fds) :
       /\ fdn[fds[k]].readable_registered /\ fdn[fds[k]].writable_registered
       /\ fdn[fds[k]].refs >= 3

\* C17: a node's handle is released exactly once, when its ref count goes
\* from one to zero: the count is never negative and only a live node's
\* count goes down; no node is left freed with a closure outstanding;
\* the pollset set holds exactly the live nodes (one add at creation, one
\* removal at release); the release never finds the handle not shut down
\* or a registration pending; and a step that releases a node starts from
\* one ref, no flag and no closure, with the node out of the list, and
\* removes it from the pollset set.
C17_HandleReleasedOnce ==
  /\ [](/\ \A n \in NodeIds : fdn[n].refs >= 0 /\ fdn[n].st \in {"unalloc", "live"}
        /\ pollset_set = {n \in NodeIds : fdn[n].st = "live"}
        /\ fault # "bad_orphan")
  /\ [][fault' = "none" =>
          \A n \in NodeIds :
            /\ fdn'[n].refs < fdn[n].refs => fdn[n].st = "live" /\ fdn[n].refs >= 1
            /\ (fdn[n].st = "live" /\ fdn'[n].st # "live") =>
                 /\ fdn[n].refs = 1
                 /\ ~fdn[n].readable_registered /\ ~fdn[n].writable_registered
                 /\ fdn[n].read_closure = "none" /\ fdn[n].write_closure = "none"
                 /\ ~InList(n, fds')
                 /\ n \in pollset_set /\ n \notin pollset_set'
                 /\ fdn'[n] = NoNode]_vars

\* a node with both registrations was dropped by a pass and both handlers
\* have run to their unref: the second unref will release it
C17_Witness ==
  \E n \in NodeIds :
    /\ fdn[n].st = "live" /\ fdn[n].refs = 1 /\ ~InList(n, fds)
    /\ \E d \in Dirs : cb[<<n, d>>].pc = "unref"
    /\ n \in pollset_set

\* C18 as stated: the traversal of destroy() never reads the next field
\* of a null node, whatever the length of the fd list.
C18_DestroyTraversalSafe ==
  "null_deref" \notin ub

\* C19 as stated: at most one live node wraps a given descriptor.
C19_OneLiveNodePerDescriptor ==
  \A n1 \in NodeIds, n2 \in NodeIds :
    (n1 # n2 /\ fdn[n1].st = "live" /\ fdn[n2].st = "live")
      => fdn[n1].fd # fdn[n2].fd

\* C20 as stated: while destroy() has not been called and the reactor
\* reports no failure of its own, no handler calls the engine's
\* cancel-all; the firing that a pass forces by shutting down a dropped
\* node is among the firings considered.
C20_CancelOnlyFromDestroyOrFailure ==
  [][\A n \in NodeIds, d \in Dirs :
       (/\ drv = "live"
        /\ cb[<<n, d>>].pc = "idle" /\ cb'[<<n, d>>].pc = "unref"
        /\ cb'[<<n, d>>].call.op = "ares_cancel")
         => ~fdn[n].shutdown]_vars

====
